---- MODULE Spec2Model ----
(***************************************************************************)
(* Model of include-wasm-rs (src/src/lib.rs): the build_wasm procedural    *)
(* macro, its worker do_build_wasm, the process-wide GLOBAL_LOCK, the      *)
(* derivation of the cargo --target-dir from the env overrides, the glob   *)
(* based artifact resolution and the watch list of all_module_files.       *)
(*                                                                         *)
(* Strings are sequences of characters (one-character TLA+ strings, or a   *)
(* whole literal of the source kept as one token, e.g. "target/").         *)
(* Every caller is one thread that expands build_wasm! once.               *)
(***************************************************************************)
EXTENDS Integers, Sequences, FiniteSets, TLC

(* ---------------------------------------------------------------------- *)
(* Bounds                                                                  *)
(* ---------------------------------------------------------------------- *)
NumCallers == 2

\* Longest feature list and longest override sequence given to the macro when
\* the command of the toolchain is derived on its own.
MaxFeatureList == 3

MaxEnvVars == 2

Threads == 1..NumCallers

(* ---------------------------------------------------------------------- *)
(* Strings                                                                 *)
(* ---------------------------------------------------------------------- *)
\* str::contains: needle occurs as a contiguous run of hay.
Contains(hay, needle) ==
    \E i \in 1..(Len(hay) - Len(needle) + 1) :
        SubSeq(hay, i, i + Len(needle) - 1) = needle

(* ---------------------------------------------------------------------- *)
(* Inputs: the Args record (lib.rs:58-64)                                  *)
(* ---------------------------------------------------------------------- *)
\* struct TargetFeatures, restricted to the feature sets the callers use.
NoFeatures == [atomics |-> FALSE, bulk_memory |-> FALSE, mutable_globals |-> FALSE]

FeatureSets == { NoFeatures, [NoFeatures EXCEPT !.atomics = TRUE] }

\* Args.env_vars: ordered (name, value) pairs.  Names are identifiers, values
\* are arbitrary strings.
EnvSeqs ==
    { << >>,
      << << <<"a">>, <<"a", "_", "a">> >> >>,
      << << <<"a", "_", "a">>, <<"a">> >> >>,
      << << <<"a">>, <<"[">> >> >> }

\* Args.module_dir: the module roots the callers name, described by what the
\* file system holds at <module_dir>/Cargo.toml.
\*   kind "none": no such entry, "dir": a directory, "file": a regular file;
\*   readable: read_to_string succeeds; text: the file's content, one token
\*   per section header / line break / other text.
CargoToml(module_dir) ==
    CASE module_dir = "m"      -> [kind |-> "file", readable |-> TRUE,
                                   text |-> <<"[package]", "\n", "name", "\n">>]
      [] module_dir = "empty"  -> [kind |-> "none", readable |-> FALSE, text |-> << >>]
      [] module_dir = "tomldir" -> [kind |-> "dir", readable |-> FALSE, text |-> << >>]
      [] module_dir = "locked" -> [kind |-> "file", readable |-> FALSE, text |-> << >>]
      [] module_dir = "ws"     -> [kind |-> "file", readable |-> TRUE,
                                   text |-> <<"[workspace]", "\n", "members", "\n">>]
      [] module_dir = "wseof"  -> [kind |-> "file", readable |-> TRUE,
                                   text |-> <<"[package]", "\n", "[workspace]">>]

ModuleDirs == {"m", "empty", "tomldir", "locked", "ws", "wseof"}

\* The configurations the callers pass: the buildable module under every
\* feature set and profile, and under every override sequence; every other
\* module root.
ArgsSet ==
    [module_dir : {"m"}, features : FeatureSets, env_vars : {<< >>}, release : BOOLEAN]
    \cup [module_dir : {"m"}, features : {NoFeatures}, env_vars : EnvSeqs, release : {TRUE}]
    \cup [module_dir : ModuleDirs \ {"m"}, features : {NoFeatures},
          env_vars : {<< >>}, release : {TRUE}]

NoArgs == [module_dir |-> "", features |-> NoFeatures,
           env_vars |-> << >>, release |-> FALSE]

(* ---------------------------------------------------------------------- *)
(* Paths and the file system                                               *)
(* ---------------------------------------------------------------------- *)
\* PathBuf::join for relative operands: a separator is pushed unless the
\* left operand already ends with one.
Join(p, q) ==
    IF Len(p) > 0 /\ p[Len(p)] # "/" THEN p \o <<"/">> \o q ELSE p \o q

\* Faulty variant: the values of the overrides are left out of the name.
RECURSIVE TargetDir_NamesOnly(_)
TargetDir_NamesOnly(env_vars) ==
    IF env_vars = << >> THEN <<"target", "/">>
    ELSE LET n    == Len(env_vars)
             last == env_vars[n]
         IN  TargetDir_NamesOnly(SubSeq(env_vars, 1, n - 1)) \o last[1] \o <<"_">>

\* lib.rs:282-286: "target/" followed, per override, by format!("{}_{}", key, val).
RECURSIVE TargetDir(_)
TargetDir(env_vars) ==
    IF env_vars = << >> THEN <<"target", "/">>
    ELSE LET n    == Len(env_vars)
             last == env_vars[n]
         IN  TargetDir(SubSeq(env_vars, 1, n - 1)) \o last[1] \o <<"_">> \o last[2]

\* lib.rs:341: module_dir.join(target_dir).join("wasm32-unknown-unknown/")
RootOutput(a, dir) ==
    Join(Join(<<a.module_dir>>, dir), <<"wasm32-unknown-unknown", "/">>)

\* lib.rs:342-346: the directory the artifact is looked for in.
ProfileDir(a, dir) ==
    IF a.release THEN Join(RootOutput(a, dir), <<"release", "/">>)
    ELSE Join(RootOutput(a, dir), <<"debug", "/">>)

\* lib.rs:342-347: the glob pattern.
GlobPattern(a, dir) == Join(ProfileDir(a, dir), <<"*", ".wasm">>)

\* glob::glob(..) at lib.rs:348-354 fails (and .expect panics) on a pattern
\* with an unclosed character class.
PatternValid(pattern) ==
    \A i \in 1..Len(pattern) :
        pattern[i] = "[" => \E j \in (i + 2)..Len(pattern) : pattern[j] = "]"

\* The static part of the file system: each module root with its sources.
FsTree ==
    UNION { {[path |-> <<m>>, kind |-> "dir"],
             [path |-> <<m, "src">>, kind |-> "dir"],
             [path |-> <<m, "src", "lib.rs">>, kind |-> "file"]}
            \cup (IF CargoToml(m).kind = "none" THEN {}
                  ELSE {[path |-> <<m, "Cargo.toml">>, kind |-> CargoToml(m).kind]})
          : m \in ModuleDirs }

\* glob::glob over the static tree: the entries whose components match the
\* pattern's components one by one ("*" matches any one component).
GlobTree(pattern) ==
    { n \in FsTree :
        /\ Len(n.path) = Len(pattern)
        /\ \A i \in 1..Len(pattern) : pattern[i] = "*" \/ pattern[i] = n.path[i] }

\* lib.rs:381-401: glob the given path, keep the regular files.
all_module_files(path) ==
    { n.path : n \in { e \in GlobTree(path) : e.kind = "file" } }

\* Every regular file below a module root.
FilesUnder(module_dir) ==
    { n.path : n \in { e \in FsTree : e.kind = "file" /\ e.path[1] = module_dir } }

\* The output directories the callers can address, and what the glob iterator
\* reports for one of them: per match a regular file, a directory, or an
\* entry that cannot be read (Err(GlobError)).
OutDirs == { ProfileDir(a, TargetDir(a.env_vars)) : a \in ArgsSet }

EntryKinds == {"file", "dir", "err"}

\* What a toolchain run that exits with status 0 can leave in its output
\* directory: the glob entries, in the order glob reports them.
Deposits ==
    { << >>, <<"file">>, <<"dir">>, <<"err">>,
      <<"file", "file">>, <<"file", "err">>, <<"file", "file", "file">> }

(* ---------------------------------------------------------------------- *)
(* Features, environment and arguments of the toolchain (lib.rs:20-56,     *)
(* 230-244, 288-319)                                                       *)
(* ---------------------------------------------------------------------- *)
\* Concatenation of a sequence of strings.
RECURSIVE Flatten(_)
Flatten(ss) ==
    IF ss = << >> THEN << >> ELSE Flatten(SubSeq(ss, 1, Len(ss) - 1)) \o ss[Len(ss)]

\* Faulty variant: every element starts from the default again, so only the
\* last feature of the list stays enabled.
RECURSIVE from_list_of_exprs_LastOnly(_)
from_list_of_exprs_LastOnly(elems) ==
    IF elems = << >> THEN [ok |-> TRUE, features |-> NoFeatures]
    ELSE LET n    == Len(elems)
             prev == from_list_of_exprs_LastOnly(SubSeq(elems, 1, n - 1))
             name == elems[n]
         IN  IF ~prev.ok THEN prev
             ELSE IF name = "atomics"
                  THEN [ok |-> TRUE, features |-> [NoFeatures EXCEPT !.atomics = TRUE]]
             ELSE IF name = "bulk_memory"
                  THEN [ok |-> TRUE, features |-> [NoFeatures EXCEPT !.bulk_memory = TRUE]]
             ELSE IF name = "mutable_globals"
                  THEN [ok |-> TRUE, features |-> [NoFeatures EXCEPT !.mutable_globals = TRUE]]
             ELSE [ok |-> FALSE, err |-> "unknown feature"]

\* lib.rs:20-56: the elements are taken in order; each known name switches
\* its flag on, the first unknown name ends the parse with an error.
RECURSIVE from_list_of_exprs(_)
from_list_of_exprs(elems) ==
    IF elems = << >> THEN [ok |-> TRUE, features |-> NoFeatures]
    ELSE LET n    == Len(elems)
             prev == from_list_of_exprs(SubSeq(elems, 1, n - 1))
             name == elems[n]
         IN  IF ~prev.ok THEN prev
             ELSE IF name = "atomics"
                  THEN [ok |-> TRUE, features |-> [prev.features EXCEPT !.atomics = TRUE]]
             ELSE IF name = "bulk_memory"
                  THEN [ok |-> TRUE, features |-> [prev.features EXCEPT !.bulk_memory = TRUE]]
             ELSE IF name = "mutable_globals"
                  THEN [ok |-> TRUE, features |-> [prev.features EXCEPT !.mutable_globals = TRUE]]
             ELSE [ok |-> FALSE, err |-> "unknown feature"]

\* lib.rs:230-244: impl Display for TargetFeatures.
Display(features) ==
    (IF features.atomics THEN <<"+atomics,">> ELSE << >>)
    \o (IF features.bulk_memory THEN <<"+bulk-memory,">> ELSE << >>)
    \o (IF features.mutable_globals THEN <<"+mutable-globals,">> ELSE << >>)

\* lib.rs:292
RUSTFLAGS == <<"RUSTFLAGS">>

\* lib.rs:293: the seeded value of RUSTFLAGS.
SeededFlags(features) ==
    <<"--cfg=web_sys_unstable_apis", " ", "-C", " ", "target-feature=">> \o Display(features)

\* Faulty variant: an override named RUSTFLAGS replaces the value instead of
\* being appended to it.
RECURSIVE CommandEnv_Overwrites(_, _)
CommandEnv_Overwrites(features, env_vars) ==
    IF env_vars = << >>
    THEN [rustflags_value |-> SeededFlags(features),
          env |-> (RUSTFLAGS :> SeededFlags(features))]
    ELSE LET n    == Len(env_vars)
             prev == CommandEnv_Overwrites(features, SubSeq(env_vars, 1, n - 1))
             key  == env_vars[n][1]
             val  == env_vars[n][2]
         IN  [rustflags_value |-> IF key = RUSTFLAGS THEN val ELSE prev.rustflags_value,
              env |-> (key :> val) @@ prev.env]

\* lib.rs:291-304: RUSTFLAGS is seeded, then the overrides are applied in
\* order: one named RUSTFLAGS is appended to the value after a space and the
\* variable is set again; any other is set as given.  `env` is the
\* environment of the Command (a map: a later set replaces an earlier one).
RECURSIVE CommandEnv(_, _)
CommandEnv(features, env_vars) ==
    IF env_vars = << >>
    THEN [rustflags_value |-> SeededFlags(features),
          env |-> (RUSTFLAGS :> SeededFlags(features))]
    ELSE LET n    == Len(env_vars)
             prev == CommandEnv(features, SubSeq(env_vars, 1, n - 1))
             key  == env_vars[n][1]
             val  == env_vars[n][2]
             appended == prev.rustflags_value \o <<" ">> \o val
         IN  IF key = RUSTFLAGS
             THEN [rustflags_value |-> appended,
                   env |-> (RUSTFLAGS :> appended) @@ prev.env]
             ELSE [rustflags_value |-> prev.rustflags_value,
                   env |-> (key :> val) @@ prev.env]

\* lib.rs:306-319: the arguments of cargo.
CommandArgs(dir, release) ==
    <<"+nightly", "build", "--target", "wasm32-unknown-unknown",
      "-Z", "build-std=panic_abort,std", "--target-dir", dir>>
    \o (IF release THEN <<"--release">> ELSE << >>)

\* The feature lists and override sequences the derivation is tried on.
FeatureNames == {"atomics", "bulk_memory", "mutable_globals", "simd"}

FeatureLists == UNION { [1..n -> FeatureNames] : n \in 0..MaxFeatureList }

CommandEnvPairs ==
    { <<k, v>> : k \in {RUSTFLAGS, <<"LEVEL">>}, v \in {<<"1", "2">>, <<"-", "g">>} }

CommandEnvSeqs == UNION { [1..n -> CommandEnvPairs] : n \in 0..MaxEnvVars }

(* ---------------------------------------------------------------------- *)
(* State                                                                   *)
(* ---------------------------------------------------------------------- *)
VARIABLES
    pc,           \* per caller: where it is in build_wasm / do_build_wasm
    args,         \* per caller: the Args it was invoked with
    GLOBAL_LOCK,  \* lib.rs:247: [locked, poisoned]
    lock,         \* per caller: the local `lock`: "none", "ok" (Ok(guard)), "err" (Err(PoisonError(guard)))
    target_dir,   \* per caller: the local `target_dir`
    spawned,      \* per caller: child processes spawned by its invocation
    result,       \* per caller: what do_build_wasm returned
    dirs,         \* per output directory: the glob entries it holds
    output,       \* per caller: what build_wasm expands to
    invoked,      \* per caller: calls of Command::output by its invocation
    out,          \* per caller: the local `out`: "none", "spawn_error", "exit_fail", "exit_ok"
    cmd           \* the command derived from one macro input, taken on its own

build_vars == <<pc, args, GLOBAL_LOCK, lock, target_dir, spawned, result, dirs, output,
                invoked, out>>

vars == <<build_vars, cmd>>

NoResult == [kind |-> "none"]

Ok(path) == [kind |-> "ok", path |-> path]

Err(e) == [kind |-> "err", err |-> e]

\* No value is returned: the call unwound with this panic message.
Panicked(msg) == [kind |-> "panic", msg |-> msg]

NoOutput == [kind |-> "none"]

NoCmd == [stage |-> "none"]

Init ==
    /\ pc = [t \in Threads |-> "idle"]
    /\ args = [t \in Threads |-> NoArgs]
    /\ GLOBAL_LOCK = [locked |-> FALSE, poisoned |-> FALSE]
    /\ lock = [t \in Threads |-> "none"]
    /\ target_dir = [t \in Threads |-> << >>]
    /\ spawned = [t \in Threads |-> 0]
    /\ result = [t \in Threads |-> NoResult]
    /\ dirs = [d \in OutDirs |-> << >>]
    /\ output = [t \in Threads |-> NoOutput]
    /\ invoked = [t \in Threads |-> 0]
    /\ out = [t \in Threads |-> "none"]
    /\ cmd = NoCmd

(* ---------------------------------------------------------------------- *)
(* build_wasm is invoked (lib.rs:435-449)                                  *)
(* ---------------------------------------------------------------------- *)
Call(t) ==
    /\ pc[t] = "idle"
    /\ UNCHANGED cmd
    /\ \E a \in ArgsSet : args' = [args EXCEPT ![t] = a]
    /\ pc' = [pc EXCEPT ![t] = "lock"]
    /\ UNCHANGED <<GLOBAL_LOCK, lock, target_dir, spawned, result, dirs, output,
                   invoked, out>>

(* ---------------------------------------------------------------------- *)
(* The lock acquisition loop (lib.rs:258-263)                              *)
(* ---------------------------------------------------------------------- *)
\* Faulty variant: a lock that does not wait for the holder to release it.
MutexLock_NoWait(t, next_ok, next_err) ==
    /\ GLOBAL_LOCK' = [GLOBAL_LOCK EXCEPT !.locked = TRUE]
    /\ lock' = [lock EXCEPT ![t] = IF GLOBAL_LOCK.poisoned THEN "err" ELSE "ok"]
    /\ pc' = [pc EXCEPT ![t] = IF GLOBAL_LOCK.poisoned THEN next_err ELSE next_ok]

\* Mutex::lock returns once the mutex is free.  A poisoned mutex is acquired
\* all the same; the guard is handed out inside the Err.
MutexLock(t, next_ok, next_err) ==
    /\ ~GLOBAL_LOCK.locked
    /\ GLOBAL_LOCK' = [GLOBAL_LOCK EXCEPT !.locked = TRUE]
    /\ lock' = [lock EXCEPT ![t] = IF GLOBAL_LOCK.poisoned THEN "err" ELSE "ok"]
    /\ pc' = [pc EXCEPT ![t] = IF GLOBAL_LOCK.poisoned THEN next_err ELSE next_ok]

\* Faulty variant: dropping the guard leaves the mutex locked.
GuardDropped_StaysLocked(panicking) ==
    [locked |-> TRUE, poisoned |-> GLOBAL_LOCK.poisoned \/ panicking]

\* Dropping a guard unlocks the mutex; a guard dropped while its thread
\* unwinds from a panic poisons it.
GuardDropped(panicking) ==
    [locked |-> FALSE, poisoned |-> GLOBAL_LOCK.poisoned \/ panicking]

\* lib.rs:259 with the loop test of line 260.
Lock(t) ==
    /\ pc[t] = "lock"
    /\ UNCHANGED cmd
    /\ MutexLock(t, "validate", "clear_poison")
    /\ UNCHANGED <<args, target_dir, spawned, result, dirs, output, invoked, out>>

\* lib.rs:261
ClearPoison(t) ==
    /\ pc[t] = "clear_poison"
    /\ UNCHANGED cmd
    /\ GLOBAL_LOCK' = [GLOBAL_LOCK EXCEPT !.poisoned = FALSE]
    /\ pc' = [pc EXCEPT ![t] = "relock"]
    /\ UNCHANGED <<args, lock, target_dir, spawned, result, dirs, output, invoked, out>>

(* ---------------------------------------------------------------------- *)
(* Leaving do_build_wasm                                                   *)
(* ---------------------------------------------------------------------- *)
\* lib.rs:451-475: what build_wasm makes of the result of do_build_wasm.
Expansion(a, r) ==
    IF r.kind = "ok"
    THEN [kind |-> "bytes", bytes_path |-> r.path,
          module_paths |-> all_module_files(<<a.module_dir>>)]
    ELSE [kind |-> "compile_error", err |-> r.err]

\* Faulty variant: a return that leaves the guard alive (e.g. leaked, or stored
\* beyond the call), so the mutex stays locked.
Return_KeepsLock(t, r) ==
    /\ result' = [result EXCEPT ![t] = r]
    /\ lock' = [lock EXCEPT ![t] = "none"]
    /\ GLOBAL_LOCK' = GLOBAL_LOCK
    /\ output' = [output EXCEPT ![t] = Expansion(args[t], r)]
    /\ pc' = [pc EXCEPT ![t] = "done"]

\* A return (early or final): the local `lock` goes out of scope, or is
\* dropped explicitly at lib.rs:376; the value reaches build_wasm, which
\* expands to its output.
Return(t, r) ==
    /\ result' = [result EXCEPT ![t] = r]
    /\ lock' = [lock EXCEPT ![t] = "none"]
    /\ GLOBAL_LOCK' = GuardDropped(FALSE)
    /\ output' = [output EXCEPT ![t] = Expansion(args[t], r)]
    /\ pc' = [pc EXCEPT ![t] = "done"]

\* A panic inside do_build_wasm: the stack unwinds through `lock`.
Panic(t, msg) ==
    /\ result' = [result EXCEPT ![t] = Panicked(msg)]
    /\ lock' = [lock EXCEPT ![t] = "none"]
    /\ GLOBAL_LOCK' = GuardDropped(TRUE)
    /\ pc' = [pc EXCEPT ![t] = "panicked"]
    /\ UNCHANGED output

\* lib.rs:262: GLOBAL_LOCK.lock() is evaluated before the assignment drops the
\* old value of `lock`, which still owns the guard of the poisoned attempt.
\* Locking a std Mutex on the thread that holds it never returns: it blocks
\* for ever or panics, and the unwinding then drops (and poisons) the guard.
Relock(t) ==
    /\ pc[t] = "relock"
    /\ UNCHANGED cmd
    /\ lock[t] = "err"
    /\ \/ /\ pc' = [pc EXCEPT ![t] = "self_deadlock"]
          /\ UNCHANGED <<GLOBAL_LOCK, lock, result, output>>
       \/ Panic(t, "relock")
    /\ UNCHANGED <<args, target_dir, spawned, dirs, invoked, out>>

(* ---------------------------------------------------------------------- *)
(* Validation of the module root (lib.rs:265-280)                          *)
(* ---------------------------------------------------------------------- *)
\* Faulty variant: the is_file test of lib.rs:267 left out; whatever cannot be read
\* counts as "no workspace marker seen".
ValidationError_NoFileCheck(a) ==
    LET cargo_config == CargoToml(a.module_dir)
    IN  IF cargo_config.kind = "file" /\ ~cargo_config.readable THEN "read_failed"
        ELSE IF Contains(cargo_config.text, <<"[workspace]", "\n">>) THEN "workspace"
        ELSE "none"

ValidationError(a) ==
    LET cargo_config == CargoToml(a.module_dir)
    IN  IF cargo_config.kind # "file" THEN "no_cargo_toml"
        ELSE IF ~cargo_config.readable THEN "read_failed"
        ELSE IF Contains(cargo_config.text, <<"[workspace]", "\n">>) THEN "workspace"
        ELSE "none"

\* lib.rs:265-286: the checks, then the derivation of target_dir.
Validate(t) ==
    /\ pc[t] = "validate"
    /\ UNCHANGED cmd
    /\ IF ValidationError(args[t]) # "none"
       THEN /\ Return(t, Err(ValidationError(args[t])))
            /\ UNCHANGED target_dir
       ELSE /\ target_dir' = [target_dir EXCEPT ![t] = TargetDir(args[t].env_vars)]
            /\ pc' = [pc EXCEPT ![t] = "spawn"]
            /\ UNCHANGED <<GLOBAL_LOCK, lock, result, output>>
    /\ UNCHANGED <<args, spawned, dirs, invoked, out>>

(* ---------------------------------------------------------------------- *)
(* The toolchain child process (lib.rs:288-338)                            *)
(* ---------------------------------------------------------------------- *)
\* lib.rs:320: Command::output either fails to start the child, or starts it.
Spawn(t) ==
    /\ pc[t] = "spawn"
    /\ UNCHANGED cmd
    /\ invoked' = [invoked EXCEPT ![t] = @ + 1]
    /\ \/ /\ out' = [out EXCEPT ![t] = "spawn_error"]
          /\ Return(t, Err("spawn_failed"))
          /\ UNCHANGED spawned
       \/ /\ spawned' = [spawned EXCEPT ![t] = @ + 1]
          /\ pc' = [pc EXCEPT ![t] = "child"]
          /\ UNCHANGED <<GLOBAL_LOCK, lock, result, output, out>>
    /\ UNCHANGED <<args, target_dir, dirs>>

\* Faulty variant: a non-zero exit status makes the call run the toolchain again.
ChildExit_Retries(t) ==
    /\ pc[t] = "child"
    /\ UNCHANGED cmd
    /\ \/ /\ out' = [out EXCEPT ![t] = "exit_fail"]
          /\ pc' = [pc EXCEPT ![t] = "spawn"]
          /\ UNCHANGED <<GLOBAL_LOCK, lock, result, output, dirs>>
       \/ /\ out' = [out EXCEPT ![t] = "exit_ok"]
          /\ \E d \in Deposits :
                dirs' = [dirs EXCEPT ![ProfileDir(args[t], target_dir[t])] =
                            [i \in 1..Len(d) |-> [kind |-> d[i], by |-> args[t]]]]
          /\ pc' = [pc EXCEPT ![t] = "resolve"]
          /\ UNCHANGED <<GLOBAL_LOCK, lock, result, output>>
    /\ UNCHANGED <<args, target_dir, spawned, invoked>>

\* Faulty variant: the exit status is not looked at; resolution follows any exit.
ChildExit_IgnoresStatus(t) ==
    /\ pc[t] = "child"
    /\ UNCHANGED cmd
    /\ \/ /\ out' = [out EXCEPT ![t] = "exit_fail"]
          /\ UNCHANGED dirs
       \/ /\ out' = [out EXCEPT ![t] = "exit_ok"]
          /\ \E d \in Deposits :
                dirs' = [dirs EXCEPT ![ProfileDir(args[t], target_dir[t])] =
                            [i \in 1..Len(d) |-> [kind |-> d[i], by |-> args[t]]]]
    /\ pc' = [pc EXCEPT ![t] = "resolve"]
    /\ UNCHANGED <<GLOBAL_LOCK, lock, result, output>>
    /\ UNCHANGED <<args, target_dir, spawned, invoked>>

\* Faulty variant: the guard is dropped as soon as the child has exited with
\* status 0, before the artifact is looked for.
ChildExit_ReleasesEarly(t) ==
    /\ pc[t] = "child"
    /\ UNCHANGED cmd
    /\ \/ /\ out' = [out EXCEPT ![t] = "exit_fail"]
          /\ Return(t, Err("build_failed"))
          /\ UNCHANGED dirs
       \/ /\ out' = [out EXCEPT ![t] = "exit_ok"]
          /\ \E d \in Deposits :
                dirs' = [dirs EXCEPT ![ProfileDir(args[t], target_dir[t])] =
                            [i \in 1..Len(d) |-> [kind |-> d[i], by |-> args[t]]]]
          /\ pc' = [pc EXCEPT ![t] = "resolve"]
          /\ lock' = [lock EXCEPT ![t] = "none"]
          /\ GLOBAL_LOCK' = GuardDropped(FALSE)
          /\ UNCHANGED <<result, output>>
    /\ UNCHANGED <<args, target_dir, spawned, invoked>>

\* The child exits.  With status 0 it has written its output directory (the
\* one named by --target-dir, module_dir being its working directory); the
\* entries are stamped with the configuration that produced them.
\* lib.rs:322-338 classifies the exit status.
ChildExit(t) ==
    /\ pc[t] = "child"
    /\ UNCHANGED cmd
    /\ \/ /\ out' = [out EXCEPT ![t] = "exit_fail"]
          /\ Return(t, Err("build_failed"))
          /\ UNCHANGED dirs
       \/ /\ out' = [out EXCEPT ![t] = "exit_ok"]
          /\ \E d \in Deposits :
                dirs' = [dirs EXCEPT ![ProfileDir(args[t], target_dir[t])] =
                            [i \in 1..Len(d) |-> [kind |-> d[i], by |-> args[t]]]]
          /\ pc' = [pc EXCEPT ![t] = "resolve"]
          /\ UNCHANGED <<GLOBAL_LOCK, lock, result, output>>
    /\ UNCHANGED <<args, target_dir, spawned, invoked>>

(* ---------------------------------------------------------------------- *)
(* Artifact resolution (lib.rs:340-378)                                    *)
(* ---------------------------------------------------------------------- *)
\* glob_paths: what the iterator yields for the caller's pattern.
GlobPaths(a, dir) == dirs[ProfileDir(a, dir)]

\* lib.rs:356-378 on the entries the iterator yields.
ResolveResult(a, dir, glob_paths) ==
    IF Len(glob_paths) = 0 THEN Err("no_output")
    ELSE IF glob_paths[1].kind = "err" THEN Err("glob_error")
    ELSE IF Len(glob_paths) >= 2 /\ glob_paths[2].kind # "err" THEN Err("multiple_outputs")
    ELSE Ok([dir |-> ProfileDir(a, dir), index |-> 1])

Resolve(t) ==
    /\ pc[t] = "resolve"
    /\ UNCHANGED cmd
    /\ IF ~PatternValid(GlobPattern(args[t], target_dir[t]))
       THEN Panic(t, "glob should be valid")
       ELSE Return(t, ResolveResult(args[t], target_dir[t], GlobPaths(args[t], target_dir[t])))
    /\ UNCHANGED <<args, target_dir, spawned, dirs, invoked, out>>

Next ==
    \E t \in Threads :
        \/ Call(t)
        \/ Lock(t)
        \/ ClearPoison(t)
        \/ Relock(t)
        \/ Validate(t)
        \/ Spawn(t)
        \/ ChildExit(t)
        \/ Resolve(t)

Spec == Init /\ [][Next]_vars

(* ---------------------------------------------------------------------- *)
(* Callers that never panic, under fair scheduling                         *)
(* ---------------------------------------------------------------------- *)
\* The configurations whose glob pattern is valid: with them no expect of
\* do_build_wasm fails.
ArgsNoPanic ==
    { a \in ArgsSet : PatternValid(GlobPattern(a, TargetDir(a.env_vars))) }

CallNoPanic(t) == Call(t) /\ args'[t] \in ArgsNoPanic

\* Without a panic the mutex is never poisoned and the loop body of
\* lib.rs:261-262 is never entered.
NextNoPanic ==
    \E t \in Threads :
        \/ CallNoPanic(t)
        \/ Lock(t)
        \/ Validate(t)
        \/ Spawn(t)
        \/ ChildExit(t)
        \/ Resolve(t)

\* Every thread that can take a step eventually takes it: a thread waiting
\* for the free mutex gets it, the child process terminates.
\* The next step of caller t inside do_build_wasm, whichever it is.
Step(t) == Lock(t) \/ Validate(t) \/ Spawn(t) \/ ChildExit(t) \/ Resolve(t)

FairScheduling == \A t \in Threads : WF_vars(Step(t))

SpecNoPanic == Init /\ [][NextNoPanic]_vars /\ FairScheduling

(* ---------------------------------------------------------------------- *)
(* The derivation of the command, on its own                               *)
(* ---------------------------------------------------------------------- *)
\* build_wasm! is written with a feature list, overrides and a profile
\* (lib.rs:66-228 reads them; they are kept as written).
Configure ==
    /\ cmd.stage = "none"
    /\ \E elems \in FeatureLists, env_vars \in CommandEnvSeqs, release \in BOOLEAN :
          cmd' = [stage |-> "written", module_dir |-> "m", elems |-> elems,
                  env_vars |-> env_vars, release |-> release]
    /\ UNCHANGED build_vars

\* lib.rs:115-127: the feature list becomes Args.features, or the parse fails.
ParseFeatures ==
    /\ cmd.stage = "written"
    /\ LET parsed == from_list_of_exprs(cmd.elems)
       IN  cmd' = IF parsed.ok
                  THEN [stage |-> "parsed", module_dir |-> cmd.module_dir,
                        elems |-> cmd.elems, env_vars |-> cmd.env_vars,
                        release |-> cmd.release, features |-> parsed.features]
                  ELSE [stage |-> "rejected", elems |-> cmd.elems, err |-> parsed.err]
    /\ UNCHANGED build_vars

\* lib.rs:282-347: target_dir, the environment and arguments of the command,
\* and the glob pattern of the artifact.
BuildCommand ==
    /\ cmd.stage = "parsed"
    /\ LET a   == [module_dir |-> cmd.module_dir, features |-> cmd.features,
                   env_vars |-> cmd.env_vars, release |-> cmd.release]
           dir == TargetDir(a.env_vars)
           e   == CommandEnv(a.features, a.env_vars)
       IN  cmd' = [stage |-> "built", module_dir |-> cmd.module_dir,
                   elems |-> cmd.elems, env_vars |-> cmd.env_vars,
                   release |-> cmd.release, features |-> cmd.features,
                   target_dir |-> dir,
                   target_feature |-> Display(a.features),
                   rustflags_value |-> e.rustflags_value,
                   env |-> e.env,
                   args |-> CommandArgs(dir, a.release),
                   glob |-> GlobPattern(a, dir)]
    /\ UNCHANGED build_vars

NextCommand == Configure \/ ParseFeatures \/ BuildCommand

SpecCommand == Init /\ [][NextCommand]_vars

(* ====================================================================== *)
(* Properties                                                              *)
(* ====================================================================== *)

\* C1: at most one caller is between the start and the end of its toolchain
\* child process at any time.
C1_ToolchainRunsExclusive ==
    Cardinality({ t \in Threads : pc[t] = "child" }) <= 1

\* A caller's child process runs while another caller, with another
\* configuration, is queued at GLOBAL_LOCK.lock().
C1_Witness ==
    \E t, u \in Threads :
        /\ pc[t] = "child"
        /\ pc[u] = "lock"
        /\ args[t] # args[u]

\* C2: after an invocation panicked holding the lock, no later invocation is
\* stopped in the acquisition loop: none blocks on, or panics over, the guard
\* it already holds; each reaches the rest of do_build_wasm.
C2_PoisonedLockRecovered ==
    \A t \in Threads :
        /\ pc[t] # "self_deadlock"
        /\ result[t] # Panicked("relock")

\* C3: an invocation that has completed, by return or by panic, holds no
\* guard, and the mutex is locked only on behalf of an invocation in progress.
C3_LockReleasedOnExit ==
    /\ \A t \in Threads : pc[t] \in {"done", "panicked"} => lock[t] = "none"
    /\ GLOBAL_LOCK.locked =>
           \E u \in Threads : lock[u] # "none" /\ pc[u] \notin {"idle", "lock", "done", "panicked"}

\* One invocation has returned Ok, another has panicked, and the mutex is free.
C3_Witness ==
    /\ ~GLOBAL_LOCK.locked
    /\ \E t, u \in Threads :
        /\ pc[t] = "panicked"
        /\ pc[u] = "done" /\ result[u].kind = "ok"

\* C4: two callers' derived output directories are equal if and only if
\* their override sequences are equal.
C4_TargetDirInjective ==
    \A t, u \in Threads :
        (target_dir[t] # << >> /\ target_dir[u] # << >>) =>
            (target_dir[t] = target_dir[u] <=> args[t].env_vars = args[u].env_vars)

\* The marker of a workspace descriptor occurs somewhere in the Cargo.toml.
DeclaresWorkspace(module_dir) ==
    \E i \in 1..Len(CargoToml(module_dir).text) :
        CargoToml(module_dir).text[i] = "[workspace]"

\* The step in which caller t leaves artifact resolution with a value.
Resolved(t) == pc[t] = "resolve" /\ pc'[t] = "done"

\* C5: artifact resolution over the entries the glob yields: none gives the
\* "no output" error; one readable entry gives Ok; a readable entry followed
\* by one or more further entries, readable or not, gives the "multiple
\* outputs" error.
C5_ExactlyOneArtifact ==
    [][\A t \in Threads :
          Resolved(t) =>
              LET glob_paths == GlobPaths(args[t], target_dir[t])
              IN  /\ Len(glob_paths) = 0 => result'[t] = Err("no_output")
                  /\ (Len(glob_paths) = 1 /\ glob_paths[1].kind # "err")
                         => result'[t].kind = "ok"
                  /\ (Len(glob_paths) >= 2 /\ glob_paths[1].kind # "err")
                         => result'[t] = Err("multiple_outputs")]_vars

\* C6: a caller whose module root has no regular file Cargo.toml never has a
\* child process spawned, and what it returns is the configuration error.
C6_NoDescriptorNoSpawn ==
    \A t \in Threads :
        (pc[t] # "idle" /\ CargoToml(args[t].module_dir).kind # "file") =>
            /\ spawned[t] = 0
            /\ pc[t] \notin {"spawn", "child", "resolve"}
            /\ pc[t] = "done" => result[t] = Err("no_cargo_toml")

\* A caller has returned from a module root without a Cargo.toml (or with a
\* directory of that name), after another caller's toolchain was spawned.
C6_Witness ==
    \E t, u \in Threads :
        /\ pc[t] = "done"
        /\ CargoToml(args[t].module_dir).kind = "dir"
        /\ result[t] = Err("no_cargo_toml")
        /\ spawned[t] = 0
        /\ spawned[u] = 1

\* C7: a caller whose Cargo.toml declares a workspace, wherever the marker
\* stands in the file, never has a child process spawned and returns an Err.
C7_WorkspaceNoSpawn ==
    \A t \in Threads :
        (pc[t] # "idle" /\ CargoToml(args[t].module_dir).kind = "file"
                        /\ DeclaresWorkspace(args[t].module_dir)) =>
            /\ spawned[t] = 0
            /\ pc[t] = "done" => result[t].kind = "err"

\* C8: at the moment do_build_wasm returns Ok(path), path is the one entry of
\* its output directory and is a regular file.
C8_OkIsRegularFile ==
    [][\A t \in Threads :
          (Resolved(t) /\ result'[t].kind = "ok") =>
              LET entries == dirs'[result'[t].path.dir]
              IN  /\ Len(entries) = 1
                  /\ entries[result'[t].path.index].kind = "file"]_vars

\* C9: callers with different configurations that both got Ok never got the
\* same artifact path.
C9_DistinctConfigsDistinctFiles ==
    \A t, u \in Threads :
        (/\ pc[t] = "done" /\ result[t].kind = "ok"
         /\ pc[u] = "done" /\ result[u].kind = "ok"
         /\ args[t] # args[u]) => result[t].path # result[u].path

\* C10: build_wasm expands a successful build to the artifact path with a
\* watch list holding every regular file under the module root, and a failed
\* build to the error alone.
C10_WatchListComplete ==
    \A t \in Threads :
        pc[t] = "done" =>
            IF result[t].kind = "ok"
            THEN /\ output[t].kind = "bytes"
                 /\ output[t].bytes_path = result[t].path
                 /\ FilesUnder(args[t].module_dir) \subseteq output[t].module_paths
            ELSE output[t] = [kind |-> "compile_error", err |-> result[t].err]

\* The errors of the module root validation (lib.rs:265-280).
ValidationErrors == { Err("no_cargo_toml"), Err("read_failed"), Err("workspace") }

\* C14: a call invokes the toolchain at most once; a call that has passed
\* validation and got to the child process, to resolution or to its end has
\* invoked it exactly once, whatever error it ended with; a call that failed
\* validation has not invoked it.
C14_ToolchainOncePerCall ==
    \A t \in Threads :
        /\ invoked[t] <= 1
        /\ spawned[t] <= invoked[t]
        /\ pc[t] \in {"child", "resolve"} => invoked[t] = 1
        /\ (pc[t] = "done" /\ result[t] \notin ValidationErrors) => invoked[t] = 1
        /\ (pc[t] = "done" /\ result[t] \in ValidationErrors) => invoked[t] = 0
        /\ result[t] = Panicked("glob should be valid") => invoked[t] = 1

\* One call ended with a non-zero exit and another with a failed artifact
\* resolution, each after a single invocation of the toolchain.
C14_Witness ==
    \E t, u \in Threads :
        /\ pc[t] = "done" /\ result[t] = Err("build_failed") /\ invoked[t] = 1
        /\ pc[u] = "done" /\ result[u] = Err("multiple_outputs") /\ invoked[u] = 1

\* C15: when the child could not be spawned or exited with a non-zero status,
\* the call has returned the matching Err, artifact resolution was not
\* entered, and build_wasm expands to the error.
C15_FailedToolchainNoArtifact ==
    \A t \in Threads :
        out[t] \in {"spawn_error", "exit_fail"} =>
            /\ pc[t] = "done"
            /\ result[t] = Err(IF out[t] = "spawn_error" THEN "spawn_failed" ELSE "build_failed")
            /\ output[t].kind = "compile_error"

\* A call's toolchain exited with a non-zero status while its output
\* directory held exactly one regular file left by an earlier build.
C15_Witness ==
    \E t \in Threads :
        /\ out[t] = "exit_fail"
        /\ result[t].kind = "err"
        /\ LET stale == dirs[ProfileDir(args[t], target_dir[t])]
           IN  Len(stale) = 1 /\ stale[1].kind = "file"

\* C16: a caller about to call GLOBAL_LOCK.lock() (lib.rs:259 or 262) holds
\* no guard of GLOBAL_LOCK, neither in an Ok nor inside a PoisonError.
C16_NoReentrantLock ==
    \A t \in Threads : pc[t] \in {"lock", "relock"} => lock[t] = "none"

\* The part of do_build_wasm between lock acquisition and release.
InCriticalSection(t) == pc[t] \in {"validate", "spawn", "child", "resolve"}

\* C17: validation, spawn, child process and artifact resolution all happen
\* with the caller holding the lock and no other caller in any of them; the
\* steps follow each other in that order and the guard is given up only when
\* the invocation ends.
C17_StepsUnderLock ==
    /\ [](\A t \in Threads :
            InCriticalSection(t) =>
                /\ lock[t] = "ok"
                /\ GLOBAL_LOCK.locked
                /\ \A u \in Threads \ {t} : lock[u] = "none" /\ ~InCriticalSection(u))
    /\ [][\A t \in Threads :
            /\ (pc'[t] = "validate" /\ pc[t] # "validate") => pc[t] \in {"lock", "relock"}
            /\ (pc'[t] = "spawn" /\ pc[t] # "spawn") => pc[t] = "validate"
            /\ (pc'[t] = "child" /\ pc[t] # "child") => pc[t] = "spawn"
            /\ (pc'[t] = "resolve" /\ pc[t] # "resolve") => pc[t] = "child"
            /\ (lock[t] # "none" /\ lock'[t] = "none") => pc'[t] \in {"done", "panicked"}]_vars

\* A caller is resolving its artifact after a successful toolchain run while
\* another caller waits at GLOBAL_LOCK.lock().
C17_Witness ==
    \E t, u \in Threads :
        /\ pc[t] = "resolve"
        /\ out[t] = "exit_ok"
        /\ pc[u] = "lock"

\* The overrides of a sequence that are named RUSTFLAGS.
IsRustflags(kv) == kv[1] = RUSTFLAGS

\* The value of the last override of env_vars named k.
LastValue(env_vars, k) ==
    LET last == CHOOSE i \in 1..Len(env_vars) :
                    /\ env_vars[i][1] = k
                    /\ \A j \in (i + 1)..Len(env_vars) : env_vars[j][1] # k
    IN  env_vars[last][2]

\* C11: RUSTFLAGS as handed to the toolchain is the two seeded flags followed
\* by the values of the overrides named RUSTFLAGS, each after one space and
\* in declaration order; every override of another name is in the
\* environment with its value as given, and nothing else is.
C11_RustflagsAppended ==
    cmd.stage = "built" =>
        LET rf     == SelectSeq(cmd.env_vars, IsRustflags)
            others == { cmd.env_vars[i][1] : i \in 1..Len(cmd.env_vars) } \ {RUSTFLAGS}
        IN  /\ cmd.env[RUSTFLAGS] =
                   <<"--cfg=web_sys_unstable_apis", " ", "-C", " ", "target-feature=">>
                   \o cmd.target_feature
                   \o Flatten([i \in 1..Len(rf) |-> <<" ">> \o rf[i][2]])
            /\ DOMAIN cmd.env = {RUSTFLAGS} \cup others
            /\ \A k \in others : cmd.env[k] = LastValue(cmd.env_vars, k)

\* Two overrides named RUSTFLAGS, with different values, have been applied.
C11_Witness ==
    /\ cmd.stage = "built"
    /\ cmd.env_vars = << <<RUSTFLAGS, <<"-", "g">> >>, <<RUSTFLAGS, <<"1", "2">> >> >>
    /\ cmd.elems = <<"bulk_memory">>
    /\ cmd.env[RUSTFLAGS] =
           <<"--cfg=web_sys_unstable_apis", " ", "-C", " ", "target-feature=",
             "+bulk-memory,", " ", "-", "g", " ", "1", "2">>

\* C12: the encoded features are the tokens of the features named in the
\* list, whatever their order and number of occurrences there, in the order
\* atomics, bulk-memory, mutable-globals; nothing when the list names none.
C12_FlagsDependOnSetOnly ==
    cmd.stage = "built" =>
        LET enabled == { cmd.elems[i] : i \in 1..Len(cmd.elems) }
        IN  cmd.target_feature =
                (IF "atomics" \in enabled THEN <<"+atomics,">> ELSE << >>)
                \o (IF "bulk_memory" \in enabled THEN <<"+bulk-memory,">> ELSE << >>)
                \o (IF "mutable_globals" \in enabled THEN <<"+mutable-globals,">> ELSE << >>)

\* A list that names the features out of order and one of them twice.
C12_Witness ==
    /\ cmd.stage = "built"
    /\ cmd.elems = <<"mutable_globals", "atomics", "atomics">>
    /\ cmd.target_feature = <<"+atomics,", "+mutable-globals,">>

\* The separator PathBuf::join puts after dir.
SepAfter(dir) == IF dir[Len(dir)] = "/" THEN << >> ELSE <<"/">>

\* C13 as stated: the directory is "target/" followed per override by
\* "_" name "_" value (target/_LEVEL_12 for LEVEL = 12), and that string is
\* both the --target-dir argument and the directory of the artifact search.
C13_TargetDirUnderscored ==
    cmd.stage = "built" =>
        /\ cmd.target_dir =
               <<"target", "/">>
               \o Flatten([i \in 1..Len(cmd.env_vars) |->
                              <<"_">> \o cmd.env_vars[i][1] \o <<"_">> \o cmd.env_vars[i][2]])
        /\ cmd.args[7] = "--target-dir" /\ cmd.args[8] = cmd.target_dir
        /\ cmd.glob = <<cmd.module_dir, "/">> \o cmd.target_dir \o SepAfter(cmd.target_dir)
                       \o <<"wasm32-unknown-unknown", "/",
                            IF cmd.release THEN "release" ELSE "debug", "/", "*", ".wasm">>
        /\ (cmd.env_vars = << <<<<"LEVEL">>, <<"1", "2">>>> >> /\ cmd.release) =>
               cmd.target_dir = <<"target", "/", "_", "LEVEL", "_", "1", "2">>

\* C13 as amended: the directory is "target/" followed per override by
\* name "_" value with nothing before the name (target/LEVEL_12 for
\* LEVEL = 12, searched at m/target/LEVEL_12/<triple>/release/*.wasm); that
\* string is both the --target-dir argument and the directory of the search.
C13_TargetDirPlain ==
    cmd.stage = "built" =>
        /\ cmd.target_dir =
               <<"target", "/">>
               \o Flatten([i \in 1..Len(cmd.env_vars) |->
                              cmd.env_vars[i][1] \o <<"_">> \o cmd.env_vars[i][2]])
        /\ cmd.args[7] = "--target-dir" /\ cmd.args[8] = cmd.target_dir
        /\ cmd.glob = <<cmd.module_dir, "/">> \o cmd.target_dir \o SepAfter(cmd.target_dir)
                       \o <<"wasm32-unknown-unknown", "/",
                            IF cmd.release THEN "release" ELSE "debug", "/", "*", ".wasm">>
        /\ (cmd.env_vars = << <<<<"LEVEL">>, <<"1", "2">>>> >> /\ cmd.release) =>
               /\ cmd.target_dir = <<"target", "/", "LEVEL", "_", "1", "2">>
               /\ cmd.glob = <<"m", "/", "target", "/", "LEVEL", "_", "1", "2", "/",
                               "wasm32-unknown-unknown", "/", "release", "/", "*", ".wasm">>

\* The command of the configuration with env [("LEVEL", "12")] and release.
C13_Witness ==
    /\ cmd.stage = "built"
    /\ cmd.env_vars = << <<<<"LEVEL">>, <<"1", "2">>>> >>
    /\ cmd.release
    /\ cmd.args[8] = <<"target", "/", "LEVEL", "_", "1", "2">>

\* C18: with callers that never panic, a child process that terminates and
\* fair scheduling, every call that was made returns; the mutex is never
\* poisoned, so no caller enters the clear-poison loop.
C18_EveryCallReturns ==
    /\ \A t \in Threads : (pc[t] = "lock") ~> (pc[t] = "done" /\ result[t].kind \in {"ok", "err"})
    /\ [](~GLOBAL_LOCK.poisoned /\ \A t \in Threads : pc[t] # "clear_poison")

\* Every caller has returned after a toolchain run of its own, so each of
\* them has been through the lock.
C18_Witness ==
    \A t \in Threads : pc[t] = "done" /\ out[t] = "exit_ok"

====
